---------------------------- MODULE Spec2Model ----------------------------
(***************************************************************************)
(* Feature-extraction pipeline of anni02th/test-spring-petclinic.          *)
(*                                                                         *)
(*   src/historical_collector.py   batch mode: walks the commit history    *)
(*   src/predict.py                incremental mode: one row in a CI job   *)
(*                                                                         *)
(* Text produced by the collaborators (git, cloc) is a sequence of         *)
(* one-character strings, so that strip/split/isdigit/int/lower/"in" are   *)
(* computed as the code computes them.  Floats are exact rationals         *)
(* [n |-> numerator, d |-> denominator] in lowest terms.                   *)
(***************************************************************************)
EXTENDS Integers, Sequences, FiniteSets, TLC

VARIABLES
    pc,                 \* position of the running script
    env,                \* configuration: credential / repository identifier
    input,              \* what the collaborators hold (commit, diff, CI history)
    result,             \* value returned by the function under analysis
    all_features,       \* predict.py __main__: the merged feature dict
    out,                \* rows written to the output CSV, in order
    fails,              \* analyzers whose collaborator failed in this invocation
    clock,              \* the readings of datetime.now() made so far
    run,                \* number of the invocation (1 or 2)
    page,               \* historical_collector.main: page
    all_commits,        \* historical_collector.main: all_commits
    idx,                \* historical_collector.main: loop index i (1-based)
    features,           \* historical_collector.main: features of the current commit
    all_features_list,  \* historical_collector.main: all_features_list
    tree                \* commit whose files are in the working tree

vars == <<pc, env, input, result, all_features, out, fails, clock, run,
          page, all_commits, idx, features, all_features_list, tree>>

---------------------------------------------------------------------------
(* Bounds of the model *)

MaxLines == 2       \* file-stat lines in one diff
MaxRuns == 6        \* CI runs in one API answer (SpecHistory)
MaxRunsMain == 2    \* CI runs in one API answer (Spec, SpecTwice)
MaxCommits == 3     \* commits the hosting API holds
PerPage == 2        \* commits per API page (scaled down from per_page: 100)

---------------------------------------------------------------------------
(* Text *)

TAB == "\t"
NL == "\n"
SP == " "
Whitespace == {SP, TAB, NL}
Digits == <<"0", "1", "2", "3", "4", "5", "6", "7", "8", "9">>
UpperCase == <<"A", "B", "C", "D", "E", "F", "G", "H", "I", "J", "K", "L", "M",
               "N", "O", "P", "Q", "R", "S", "T", "U", "V", "W", "X", "Y", "Z">>
LowerCase == <<"a", "b", "c", "d", "e", "f", "g", "h", "i", "j", "k", "l", "m",
               "n", "o", "p", "q", "r", "s", "t", "u", "v", "w", "x", "y", "z">>

IndexIn(c, seq) ==
    IF \E i \in 1..Len(seq) : seq[i] = c
    THEN CHOOSE i \in 1..Len(seq) : seq[i] = c
    ELSE 0

\* str.lower()
LowerChar(c) == IF IndexIn(c, UpperCase) > 0 THEN LowerCase[IndexIn(c, UpperCase)] ELSE c
Lower(s) == [i \in 1..Len(s) |-> LowerChar(s[i])]

\* sub in s
Contains(s, sub) ==
    \E i \in 0..(Len(s) - Len(sub)) : SubSeq(s, i + 1, i + Len(sub)) = sub

\* s.startswith(prefix) / s.endswith(suffix)
StartsWith(s, prefix) == Len(prefix) <= Len(s) /\ SubSeq(s, 1, Len(prefix)) = prefix
EndsWith(s, suffix) ==
    Len(suffix) <= Len(s) /\ SubSeq(s, Len(s) - Len(suffix) + 1, Len(s)) = suffix

\* str.strip()
RECURSIVE LStrip(_)
LStrip(s) == IF s # <<>> /\ Head(s) \in Whitespace THEN LStrip(Tail(s)) ELSE s
RECURSIVE RStrip(_)
RStrip(s) ==
    IF s # <<>> /\ s[Len(s)] \in Whitespace THEN RStrip(SubSeq(s, 1, Len(s) - 1)) ELSE s
Strip(s) == RStrip(LStrip(s))

\* str.split(sep) for a one-character sep: always at least one piece
RECURSIVE SplitOn(_, _)
SplitOn(s, sep) ==
    IF \E i \in 1..Len(s) : s[i] = sep
    THEN LET i == CHOOSE k \in 1..Len(s) : s[k] = sep /\ \A j \in 1..(k - 1) : s[j] # sep
         IN <<SubSeq(s, 1, i - 1)>> \o SplitOn(SubSeq(s, i + 1, Len(s)), sep)
    ELSE <<s>>

\* str.splitlines(): no piece for the empty text, none after a final line break
SplitLines(s) ==
    IF s = <<>> THEN <<>>
    ELSE IF s[Len(s)] = NL THEN SplitOn(SubSeq(s, 1, Len(s) - 1), NL)
    ELSE SplitOn(s, NL)

\* str.split(): pieces between runs of whitespace, none of them empty
RECURSIVE DropEmpty(_)
DropEmpty(pieces) ==
    IF pieces = <<>> THEN <<>>
    ELSE IF Head(pieces) = <<>> THEN DropEmpty(Tail(pieces))
    ELSE <<Head(pieces)>> \o DropEmpty(Tail(pieces))
SplitWs(s) ==
    DropEmpty(SplitOn([i \in 1..Len(s) |-> IF s[i] \in Whitespace THEN SP ELSE s[i]], SP))

\* str.isdigit()
IsDigit(s) == s # <<>> /\ \A i \in 1..Len(s) : IndexIn(s[i], Digits) > 0

RECURSIVE DigitsValue(_)
DigitsValue(s) ==
    IF s = <<>> THEN 0
    ELSE 10 * DigitsValue(SubSeq(s, 1, Len(s) - 1)) + (IndexIn(s[Len(s)], Digits) - 1)

\* int(s): the value, or ValueError when s is no (signed) decimal numeral
ParseInt(s) ==
    LET t == Strip(s)
        body == IF t # <<>> /\ Head(t) \in {"+", "-"} THEN Tail(t) ELSE t
    IN IF IsDigit(body)
       THEN [raised |-> FALSE,
             value |-> IF Head(t) = "-" THEN 0 - DigitsValue(body) ELSE DigitsValue(body)]
       ELSE [raised |-> TRUE, value |-> 0]

---------------------------------------------------------------------------
(* Dicts and rows *)

EmptyDict == <<>>

\* dict.update(other)
Update(d, other) ==
    [k \in (DOMAIN d) \cup (DOMAIN other) |-> IF k \in DOMAIN other THEN other[k] ELSE d[k]]

\* pd.DataFrame([d], columns=cols).fillna(0): one row, the columns in the order of cols
FrameRow(d, cols) ==
    [i \in 1..Len(cols) |->
        [name |-> cols[i], value |-> IF cols[i] \in DOMAIN d THEN d[cols[i]] ELSE 0]]

RowNames(row) == [i \in 1..Len(row) |-> row[i].name]
RowValue(row, name) == row[CHOOSE i \in 1..Len(row) : row[i].name = name].value

FEATURE_COLS ==
    <<"commit_sha", "commit_date", "src_churn", "files_added", "files_deleted",
      "files_modified", "test_churn", "tests_added", "tests_deleted", "team_size",
      "sloc", "test_lines_per_kloc", "num_commit_comments", "committers",
      "prev_pass", "elapsed_days_last_build", "project_fail_history",
      "project_fail_recent", "commit_interval", "project_age">>

\* feature_cols of predict.py
feature_cols ==
    <<"src_churn", "files_added", "files_deleted", "files_modified",
      "test_churn", "tests_added", "tests_deleted", "team_size", "sloc",
      "test_lines_per_kloc", "num_commit_comments", "committers", "prev_pass",
      "elapsed_days_last_build", "project_fail_history", "project_fail_recent",
      "commit_interval", "project_age">>

---------------------------------------------------------------------------
(* Rationals: the values of the float-valued fields *)

RECURSIVE Gcd(_, _)
Gcd(a, b) == IF b = 0 THEN a ELSE Gcd(b, a % b)
Abs(a) == IF a < 0 THEN 0 - a ELSE a

\* a / b for b > 0
Rat(a, b) == LET g == Gcd(Abs(a), b) IN [n |-> a \div g, d |-> b \div g]
RatSub(x, y) == Rat(x.n * y.d - y.n * x.d, x.d * y.d)
RatMul(x, k) == Rat(x.n * k, x.d)
RatZero == Rat(0, 1)
RatOne == Rat(1, 1)

RECURSIVE SumSeq(_)
SumSeq(s) == IF s = <<>> THEN 0 ELSE Head(s) + SumSeq(Tail(s))

---------------------------------------------------------------------------
(* The version-control collaborator (git) *)

\* The decimal numeral of a natural number
RECURSIVE Numeral(_)
Numeral(n) == IF n < 10 THEN <<Digits[n + 1]>> ELSE Numeral(n \div 10) \o <<Digits[(n % 10) + 1]>>

\* What git knows of one changed file: the counts of a text file (numeric), or
\* no counts for a binary file; test records whether the path contains "test"
\* in any letter case.
StatLines ==
    { [numeric |-> TRUE,  ins |-> 3,  del |-> 1, test |-> FALSE,
       path |-> <<"s", "r", "c", "/", "A">>],
      [numeric |-> TRUE,  ins |-> 12, del |-> 0, test |-> TRUE,
       path |-> <<"s", "r", "c", "/", "T", "e", "s", "t", "A">>],
      [numeric |-> TRUE,  ins |-> 0,  del |-> 5, test |-> TRUE,
       path |-> <<"l", "a", "t", "e", "s", "t", "s">>],
      [numeric |-> TRUE,  ins |-> 2,  del |-> 2, test |-> FALSE,
       path |-> <<"t", "e", "s", ".", "t">>],
      [numeric |-> FALSE, ins |-> 0,  del |-> 0, test |-> FALSE,
       path |-> <<"i", ".", "p", "n", "g">>] }

SeqsUpTo(S, n) == UNION {[1..k -> S] : k \in 0..n}
DiffInputs == SeqsUpTo(StatLines, MaxLines)

\* A file-stat line of `git diff --numstat`: insertions TAB deletions TAB path,
\* with "-" for both counts of a binary file
StatText(l) ==
    (IF l.numeric THEN Numeral(l.ins) ELSE <<"-">>) \o <<TAB>>
    \o (IF l.numeric THEN Numeral(l.del) ELSE <<"-">>) \o <<TAB>>
    \o l.path \o <<NL>>

RECURSIVE NumstatText(_)
NumstatText(ls) == IF ls = <<>> THEN <<>> ELSE StatText(Head(ls)) \o NumstatText(Tail(ls))

\* A finished subprocess
Completed(text) == [ok |-> TRUE, stdout |-> text]
CalledProcessError == [ok |-> FALSE, stdout |-> <<>>]

\* git rev-list --parents -n 1 <sha>: the commit and its parents on one line
RECURSIVE ParentsText(_)
ParentsText(n) == IF n = 0 THEN <<>> ELSE <<SP, "p">> \o ParentsText(n - 1)
GitRevList(c) ==
    IF c.revlist_ok THEN Completed(<<"c">> \o ParentsText(c.parents) \o <<NL>>)
    ELSE CalledProcessError

\* git diff --numstat <sha>~1 <sha>: <sha>~1 names nothing for a commit without
\* parent, and git exits with an error
GitDiff(c) ==
    IF c.parents = 0 \/ ~c.diff_ok THEN CalledProcessError
    ELSE Completed(NumstatText(c.lines))

\* The commits the analyzers may meet
CommitInputs ==
    [parents : 0..2, revlist_ok : BOOLEAN, diff_ok : BOOLEAN, lines : DiffInputs]

---------------------------------------------------------------------------
(* run_command, in both scripts *)

run_command(proc) == IF proc.ok THEN Strip(proc.stdout) ELSE <<>>

---------------------------------------------------------------------------
(* get_code_churn *)

Returned(f) == [raised |-> FALSE, features |-> f]
Raised == [raised |-> TRUE, features |-> EmptyDict]

ZeroCounts == [src_ins |-> 0, src_del |-> 0, test_ins |-> 0, test_del |-> 0, raised |-> FALSE]

\* if "test" in path.lower(): ... else: ...
AddCounts(acc, insertions, deletions, path) ==
    IF Contains(Lower(path), <<"t", "e", "s", "t">>)
    THEN [acc EXCEPT !.test_ins = @ + insertions, !.test_del = @ + deletions]
    ELSE [acc EXCEPT !.src_ins = @ + insertions, !.src_del = @ + deletions]

\* historical_collector.py: the loop over diff_output.splitlines()
RECURSIVE ChurnLoopGuarded(_, _)
ChurnLoopGuarded(lines, acc) ==
    IF lines = <<>> THEN acc
    ELSE LET parts == SplitOn(Head(lines), TAB)
         IN IF Len(parts) < 3 THEN ChurnLoopGuarded(Tail(lines), acc)
            ELSE IF IsDigit(parts[1]) /\ IsDigit(parts[2])
            THEN ChurnLoopGuarded(Tail(lines),
                     AddCounts(acc, ParseInt(parts[1]).value, ParseInt(parts[2]).value, parts[3]))
            ELSE ChurnLoopGuarded(Tail(lines), acc)

\* predict.py: the loop over diff_output.splitlines(); int() raises ValueError
RECURSIVE ChurnLoopBare(_, _)
ChurnLoopBare(lines, acc) ==
    IF lines = <<>> THEN acc
    ELSE LET parts == SplitOn(Head(lines), TAB)
         IN IF Len(parts) < 3 THEN ChurnLoopBare(Tail(lines), acc)
            ELSE IF ParseInt(parts[1]).raised \/ ParseInt(parts[2]).raised
            THEN [acc EXCEPT !.raised = TRUE]
            ELSE ChurnLoopBare(Tail(lines),
                     AddCounts(acc, ParseInt(parts[1]).value, ParseInt(parts[2]).value, parts[3]))

\* if parent_count < 2: return features
TooFewParentsMutant(parent_count) == parent_count < 3
TooFewParents(parent_count) == parent_count < 2

\* historical_collector.get_code_churn(commit_sha, repo_path)
get_code_churn(c) ==
    LET features0 == [src_churn |-> 0, files_modified |-> 0, test_churn |-> 0]
        parent_count == Len(SplitWs(run_command(GitRevList(c))))
        diff_output == run_command(GitDiff(c))
        n == ChurnLoopGuarded(SplitLines(diff_output), ZeroCounts)
    IN IF TooFewParents(parent_count) THEN Returned(features0)
       ELSE IF diff_output = <<>> THEN Returned(features0)
       ELSE Returned([src_churn |-> n.src_ins + n.src_del,
                      files_modified |-> Len(SplitLines(diff_output)),
                      test_churn |-> n.test_ins + n.test_del])

\* predict.get_code_churn(), run on the commit c that is HEAD
predict_get_code_churn(c) ==
    LET features0 == [src_churn |-> 0, files_added |-> 0, files_deleted |-> 0,
                      files_modified |-> 0, test_churn |-> 0, tests_added |-> 0,
                      tests_deleted |-> 0]
        diff_output == run_command(GitDiff(c))
        n == ChurnLoopBare(SplitLines(diff_output), ZeroCounts)
    IN IF diff_output = <<>> THEN Returned(features0)
       ELSE IF n.raised THEN Raised
       ELSE Returned([features0 EXCEPT !.src_churn = n.src_ins + n.src_del,
                                       !.test_churn = n.test_ins + n.test_del,
                                       !.files_modified = Len(SplitLines(diff_output))])

---------------------------------------------------------------------------
(* SpecChurn: get_code_churn of either script applied to one commit *)

NoInput == [kind |-> "none"]
NoResult == [raised |-> FALSE, features |-> EmptyDict]

\* The variables of the other scripts, at rest
IdleIncremental ==
    /\ all_features = EmptyDict /\ out = <<>> /\ fails = {} /\ clock = <<>> /\ run = 0
IdleBatch ==
    /\ page = 0 /\ all_commits = <<>> /\ idx = 0 /\ features = EmptyDict
    /\ all_features_list = <<>> /\ tree = 0
incrementalVars == <<all_features, out, fails, clock, run>>
batchVars == <<page, all_commits, idx, features, all_features_list, tree>>

InitChurn ==
    /\ pc = "call"
    /\ env \in [script : {"historical_collector", "predict"}]
    /\ input \in CommitInputs
    /\ result = NoResult
    /\ IdleIncremental /\ IdleBatch

ApplyChurn ==
    /\ pc = "call"
    /\ result' = IF env.script = "predict" THEN predict_get_code_churn(input)
                 ELSE get_code_churn(input)
    /\ pc' = IF result'.raised THEN "raised" ELSE "returned"
    /\ UNCHANGED <<env, input, incrementalVars, batchVars>>

NextChurn == ApplyChurn
SpecChurn == InitChurn /\ [][NextChurn]_vars

\* What the diff of a commit holds, counted from git's side
RECURSIVE ChurnOf(_, _)
ChurnOf(ls, test) ==
    IF ls = <<>> THEN 0
    ELSE (IF Head(ls).numeric /\ Head(ls).test = test THEN Head(ls).ins + Head(ls).del ELSE 0)
         + ChurnOf(Tail(ls), test)

AllZero(f) == \A k \in DOMAIN f : f[k] = 0

\* The diff reached the function: both git commands ran
DiffRead ==
    /\ input.parents >= 1 /\ input.diff_ok
    /\ (env.script = "historical_collector" => input.revlist_ok)

(* C3, as claimed: for every commit with fewer than two parents (zero or one), *)
(* get_code_churn returns a churn summary in which every field is 0.           *)
C3_FewerThanTwoParentsAllZero ==
    (pc # "call" /\ input.parents < 2) =>
        (~result.raised /\ DOMAIN result.features # {} /\ AllZero(result.features))

(* C3, amended: for every commit with zero parents get_code_churn returns a    *)
(* summary in which every field is 0; for a commit with exactly one parent it  *)
(* returns, when it returns and both git commands ran, the churn of the diff    *)
(* against that parent.                                                         *)
C3_RootCommitAllZero ==
    /\ (pc # "call" /\ input.parents = 0) =>
           (~result.raised /\ DOMAIN result.features # {} /\ AllZero(result.features))
    /\ (pc = "returned" /\ input.parents = 1 /\ DiffRead) =>
           /\ result.features.src_churn = ChurnOf(input.lines, FALSE)
           /\ result.features.test_churn = ChurnOf(input.lines, TRUE)
           /\ result.features.files_modified = Len(input.lines)

C3_Witness ==
    /\ pc = "returned" /\ input.parents = 0 /\ input.lines # <<>>
    /\ env.script = "historical_collector" /\ input.revlist_ok
    /\ result.features.src_churn = 0

(* C4: for every diff input, lines with non-numeric counts included,           *)
(* get_code_churn returns normally, test_churn is the sum of insertions +      *)
(* deletions over the numeric lines whose path contains "test" in any case,    *)
(* and src_churn is that sum over the other numeric lines.                     *)
C4_ChurnPartition ==
    (pc # "call" /\ DiffRead) =>
        /\ ~result.raised
        /\ result.features.test_churn = ChurnOf(input.lines, TRUE)
        /\ result.features.src_churn = ChurnOf(input.lines, FALSE)

---------------------------------------------------------------------------
(* The CI/hosting API collaborator *)

SecondsPerDay == 86400     \* timedelta.days
SecondsPerHour == 3600     \* total_seconds() / 3600

\* Instants are seconds since the repository was created; an ISO timestamp of an
\* API answer stands for its instant (datetime.fromisoformat of the "Z" form).
RepoCreated == 0
NowTimes == {20 * SecondsPerDay, 20 * SecondsPerDay + 12 * SecondsPerHour,
             21 * SecondsPerDay + SecondsPerHour}
\* The i-th run of an answer (most recent first) was created at RunCreated(i)
RunCreated(i) == 19 * SecondsPerDay + 18 * SecondsPerHour - (i - 1) * (SecondsPerDay + SecondsPerHour)

None == [kind |-> "none"]
ApiFailure == [ok |-> FALSE, json |-> None]
ApiAnswer(json) == [ok |-> TRUE, json |-> json]

\* if value:
Truthy(v) == v.kind # "none" /\ (v.kind = "list" => v.items # <<>>)

RunKinds == {"success", "failure", "in_progress"}
WorkflowRun(kind, i) ==
    [status |-> IF kind = "in_progress" THEN "in_progress" ELSE "completed",
     conclusion |-> IF kind = "in_progress" THEN "null" ELSE kind,
     created_at |-> RunCreated(i)]
WorkflowRuns(kinds) == [i \in 1..Len(kinds) |-> WorkflowRun(kinds[i], i)]

\* GET /repos/{repo}
RepoAnswers ==
    {ApiFailure,
     ApiAnswer([kind |-> "dict", has_created_at |-> TRUE, created_at |-> RepoCreated]),
     ApiAnswer([kind |-> "dict", has_created_at |-> FALSE, created_at |-> 0])}
\* GET /repos/{repo}/actions/runs
RunsAnswers(n) ==
    {ApiFailure} \cup
    {ApiAnswer([kind |-> "dict",
                workflow_runs |-> [kind |-> "list", items |-> WorkflowRuns(ks)]]) :
        ks \in SeqsUpTo(RunKinds, n)}
\* GET /repos/{repo}/commits?per_page=2: author dates, most recent first
CommitsAnswers ==
    {ApiFailure} \cup
    {ApiAnswer([kind |-> "list", items |-> ds]) :
        ds \in {<<>>, <<19 * SecondsPerDay>>,
                <<19 * SecondsPerDay, 17 * SecondsPerDay + 12 * SecondsPerHour>>,
                <<19 * SecondsPerDay, 19 * SecondsPerDay - 5400>>}}
\* GET /repos/{repo}/commits/{sha}
CommitAnswers ==
    {ApiFailure} \cup
    {ApiAnswer([kind |-> "dict", comment_count |-> n, author |-> a]) :
        n \in {0, 2}, a \in BOOLEAN}

\* predict.make_api_request(endpoint): no request without token or repository
predict_make_api_request(e, answer) ==
    IF ~e.token \/ ~e.repo THEN None
    ELSE IF answer.ok THEN answer.json
    ELSE None

---------------------------------------------------------------------------
(* The line counter (cloc) *)

\* One language entry of cloc's JSON report
Entry(key, code) == [key |-> key, code |-> code]
HeaderKey == <<"h", "e", "a", "d", "e", "r">>
SumKey == <<"S", "U", "M">>
JavaKey == <<"J", "a", "v", "a">>
JUnitKey == <<"J", "U", "n", "i", "t">>
TestLanguages == {<<"j", "u", "n", "i", "t">>, <<"t", "e", "s", "t", "n", "g">>,
                  <<"u", "n", "i", "t", "t", "e", "s", "t">>}

\* stdout of `cloc . --json`: a JSON document (its entries in order) or other text
JsonText(entries) == [json |-> TRUE, empty |-> FALSE, entries |-> entries]
OtherText == [json |-> FALSE, empty |-> FALSE, entries |-> <<>>]
EmptyText == [json |-> FALSE, empty |-> TRUE, entries |-> <<>>]
ClocRuns ==
    {CalledProcessError, Completed(EmptyText), Completed(OtherText),
     Completed(JsonText(<<Entry(HeaderKey, 0), Entry(JavaKey, 100), Entry(SumKey, 100)>>)),
     Completed(JsonText(<<Entry(HeaderKey, 0), Entry(JavaKey, 100), Entry(JUnitKey, 25),
                          Entry(SumKey, 125)>>)),
     Completed(JsonText(<<Entry(HeaderKey, 0), Entry(JUnitKey, 25), Entry(SumKey, 25)>>))}

RECURSIVE CodeLines(_, _)
CodeLines(entries, test) ==
    IF entries = <<>> THEN 0
    ELSE (IF Head(entries).key \notin {HeaderKey, SumKey}
             /\ (Lower(Head(entries).key) \in TestLanguages) = test
          THEN Head(entries).code ELSE 0)
         + CodeLines(Tail(entries), test)

\* predict.get_sloc_and_test_lines()
get_sloc_and_test_lines(proc) ==
    LET features0 == [sloc |-> 0, test_lines_per_kloc |-> RatZero]
        text == IF proc.ok THEN proc.stdout ELSE EmptyText
        total_code_lines == CodeLines(text.entries, FALSE)
        test_code_lines == CodeLines(text.entries, TRUE)
    IN IF text.empty THEN features0
       ELSE IF ~text.json THEN features0
       ELSE [sloc |-> total_code_lines,
             test_lines_per_kloc |->
                 IF total_code_lines > 0
                 THEN RatMul(Rat(test_code_lines, total_code_lines), 1000)
                 ELSE RatZero]

---------------------------------------------------------------------------
(* predict.py: commit metadata and project history *)

\* predict.get_commit_metadata()
get_commit_metadata(e, answer) ==
    LET data == predict_make_api_request(e, answer)
    IN IF Truthy(data)
       THEN [num_commit_comments |-> data.comment_count,
             committers |-> IF data.author THEN 1 ELSE 0]
       ELSE [num_commit_comments |-> 0, committers |-> 1]

IsCompleted(r) == r.status = "completed"
Outcome(r) == IF r.conclusion = "success" THEN 1 ELSE 0

\* features = {'prev_pass': 1, ...}
HistoryDefaults ==
    [prev_pass |-> 1, elapsed_days_last_build |-> 0, project_fail_history |-> RatZero,
     project_fail_recent |-> RatZero, commit_interval |-> RatZero, project_age |-> 0]

\* recent_outcomes = outcomes[:5]
RecentOutcomesMutant(outcomes) == outcomes
RecentOutcomes(outcomes) ==
    SubSeq(outcomes, 1, IF Len(outcomes) < 5 THEN Len(outcomes) ELSE 5)

\* 1 - (sum(outcomes) / len(outcomes))
FailRatio(outcomes) == RatSub(RatOne, Rat(SumSeq(outcomes), Len(outcomes)))

\* get_project_history, 1. Project Age; now is read only when the answer has created_at
ReadsClockForAge(e, answer) ==
    LET repo_data == predict_make_api_request(e, answer)
    IN Truthy(repo_data) /\ repo_data.has_created_at
HistoryAge(f, e, answer, now) ==
    LET repo_data == predict_make_api_request(e, answer)
    IN IF ReadsClockForAge(e, answer)
       THEN [f EXCEPT !.project_age = (now - repo_data.created_at) \div SecondsPerDay]
       ELSE f

\* get_project_history, 2. Build History; now is read only when a run is completed
CompletedRuns(e, answer) ==
    LET runs_data == predict_make_api_request(e, answer)
    IN IF Truthy(runs_data) /\ Truthy(runs_data.workflow_runs)
       THEN SelectSeq(runs_data.workflow_runs.items, IsCompleted)
       ELSE <<>>
ReadsClockForBuilds(e, answer) == CompletedRuns(e, answer) # <<>>
HistoryBuilds(f, e, answer, now) ==
    LET completed_runs == CompletedRuns(e, answer)
        last_run == completed_runs[1]
        outcomes == [i \in 1..Len(completed_runs) |-> Outcome(completed_runs[i])]
    IN IF completed_runs # <<>>
       THEN [f EXCEPT
               !.prev_pass = IF last_run.conclusion = "success" THEN 1 ELSE 0,
               !.elapsed_days_last_build = (now - last_run.created_at) \div SecondsPerDay,
               !.project_fail_history = FailRatio(outcomes),
               !.project_fail_recent = FailRatio(RecentOutcomes(outcomes))]
       ELSE f

\* get_project_history, 3. Commit Interval, in hours
IntervalHoursMutant(time_now, time_prev) ==
    Rat((IF clock = <<>> THEN time_now ELSE clock[Len(clock)].at) - time_prev, SecondsPerHour)
IntervalHours(time_now, time_prev) == Rat(time_now - time_prev, SecondsPerHour)
HistoryInterval(f, e, answer) ==
    LET commits_data == predict_make_api_request(e, answer)
    IN IF Truthy(commits_data) /\ Len(commits_data.items) > 1
       THEN [f EXCEPT !.commit_interval =
                IntervalHours(commits_data.items[1], commits_data.items[2])]
       ELSE f

\* predict.get_project_history(): three requests, the clock read at nowA and nowB
get_project_history(e, repo, runs, commits, nowA, nowB) ==
    HistoryInterval(
        HistoryBuilds(HistoryAge(HistoryDefaults, e, repo, nowA), e, runs, nowB),
        e, commits)

---------------------------------------------------------------------------
(* Spec: one invocation of predict.py (incremental mode) *)

PredictEnvs == [script : {"predict"}, token : BOOLEAN, repo : BOOLEAN]
HeadCommits == {c \in CommitInputs : c.revlist_ok}

\* A reading of datetime.now(timezone.utc): the clock never runs backwards
LastReading == IF clock = <<>> THEN 0 ELSE clock[Len(clock)].at
Readable(now) == now \in NowTimes /\ now >= LastReading
Read(reads, now) == IF reads THEN Append(clock, [run |-> run, at |-> now]) ELSE clock

Init ==
    /\ pc = "churn"
    /\ env \in PredictEnvs
    /\ input = NoInput
    /\ result = NoResult
    /\ all_features = EmptyDict /\ out = <<>> /\ fails = {} /\ clock = <<>> /\ run = 1
    /\ IdleBatch

\* all_features.update(get_code_churn())
ChurnStep(c) ==
    /\ pc = "churn"
    /\ LET r == predict_get_code_churn(c)
       IN /\ pc' = IF r.raised THEN "crashed" ELSE "sloc"
          /\ all_features' = IF r.raised THEN all_features ELSE Update(all_features, r.features)
    /\ fails' = fails \cup (IF GitDiff(c).ok THEN {} ELSE {"diff"})
    /\ UNCHANGED <<env, input, result, out, clock, run, batchVars>>

\* all_features.update(get_sloc_and_test_lines())
SlocStep(proc) ==
    /\ pc = "sloc"
    /\ all_features' = Update(all_features, get_sloc_and_test_lines(proc))
    /\ fails' = fails \cup (IF proc.ok /\ proc.stdout.json THEN {} ELSE {"cloc"})
    /\ pc' = "meta"
    /\ UNCHANGED <<env, input, result, out, clock, run, batchVars>>

\* A request is sent only with both credentials; it fails when the answer is an error
Requested == env.token /\ env.repo
Failed(answer, what) == IF Requested /\ ~answer.ok THEN {what} ELSE {}

\* all_features.update(get_commit_metadata())
MetaStep(answer) ==
    /\ pc = "meta"
    /\ all_features' = Update(all_features, get_commit_metadata(env, answer))
    /\ fails' = fails \cup Failed(answer, "commit_api")
    /\ pc' = "age"
    /\ UNCHANGED <<env, input, result, out, clock, run, batchVars>>

\* get_project_history(): the repository request
AgeStep(answer, now) ==
    /\ pc = "age"
    /\ Readable(now)
    /\ result' = Returned(HistoryAge(HistoryDefaults, env, answer, now))
    /\ clock' = Read(ReadsClockForAge(env, answer), now)
    /\ fails' = fails \cup Failed(answer, "repo_api")
    /\ pc' = "runs"
    /\ UNCHANGED <<env, input, all_features, out, run, batchVars>>

\* get_project_history(): the workflow-runs request
RunsStep(answer, now) ==
    /\ pc = "runs"
    /\ Readable(now)
    /\ result' = Returned(HistoryBuilds(result.features, env, answer, now))
    /\ clock' = Read(ReadsClockForBuilds(env, answer), now)
    /\ fails' = fails \cup Failed(answer, "runs_api")
    /\ pc' = "interval"
    /\ UNCHANGED <<env, input, all_features, out, run, batchVars>>

\* get_project_history(): the commits request, and all_features.update(...) of its result
IntervalStep(answer) ==
    /\ pc = "interval"
    /\ all_features' = Update(all_features, HistoryInterval(result.features, env, answer))
    /\ result' = NoResult
    /\ fails' = fails \cup Failed(answer, "commits_api")
    /\ pc' = "write"
    /\ UNCHANGED <<env, input, out, clock, run, batchVars>>

\* df = pd.DataFrame([all_features], columns=feature_cols).fillna(0); df.to_csv(...)
WriteStep ==
    /\ pc = "write"
    /\ out' = Append(out, FrameRow(all_features, feature_cols))
    /\ pc' = "done"
    /\ UNCHANGED <<env, input, result, all_features, fails, clock, run, batchVars>>

Next ==
    \/ \E c \in HeadCommits : ChurnStep(c)
    \/ \E proc \in ClocRuns : SlocStep(proc)
    \/ \E answer \in CommitAnswers : MetaStep(answer)
    \/ \E answer \in RepoAnswers, now \in NowTimes : AgeStep(answer, now)
    \/ \E answer \in RunsAnswers(MaxRunsMain), now \in NowTimes : RunsStep(answer, now)
    \/ \E answer \in CommitsAnswers : IntervalStep(answer)
    \/ WriteStep

Spec == Init /\ [][Next]_vars

---------------------------------------------------------------------------
(* SpecHistory: get_project_history applied to one CI-history snapshot *)

HistoryInputs ==
    [repo : {ApiFailure,
             ApiAnswer([kind |-> "dict", has_created_at |-> TRUE, created_at |-> RepoCreated])},
     runs : RunsAnswers(MaxRuns),
     commits : {ApiAnswer([kind |-> "list", items |-> <<19 * SecondsPerDay>>]),
                ApiAnswer([kind |-> "list",
                           items |-> <<19 * SecondsPerDay,
                                       17 * SecondsPerDay + 12 * SecondsPerHour>>])},
     now : {20 * SecondsPerDay, 21 * SecondsPerDay + SecondsPerHour}]

InitHistory ==
    /\ pc = "call"
    /\ env \in {e \in PredictEnvs : e.repo}
    /\ input \in HistoryInputs
    /\ result = NoResult
    /\ IdleIncremental /\ IdleBatch

ApplyHistory ==
    /\ pc = "call"
    /\ result' = Returned(get_project_history(env, input.repo, input.runs, input.commits,
                                              input.now, input.now))
    /\ pc' = "returned"
    /\ UNCHANGED <<env, input, incrementalVars, batchVars>>

NextHistory == ApplyHistory
SpecHistory == InitHistory /\ [][NextHistory]_vars

\* The completed runs the function was supplied with, most recent first
SuppliedCompleted ==
    IF env.token /\ env.repo /\ input.runs.ok
    THEN SelectSeq(input.runs.json.workflow_runs.items, IsCompleted)
    ELSE <<>>
Failures(runs) == Cardinality({i \in 1..Len(runs) : runs[i].conclusion # "success"})
FirstFive(runs) == [i \in 1..(IF Len(runs) < 5 THEN Len(runs) ELSE 5) |-> runs[i]]

(* C7: get_project_history sets prev_pass to 1 exactly when there is at least  *)
(* one completed run and the most recent completed run's conclusion is         *)
(* success; in every other case (no completed run, or the runs request         *)
(* returned nothing) prev_pass is 0.                                           *)
C7_PrevPass ==
    pc = "returned" =>
        (result.features.prev_pass = 1
            <=> (SuppliedCompleted # <<>> /\ SuppliedCompleted[1].conclusion = "success"))

(* C8: project_fail_history is 1 minus the share of successes among all        *)
(* completed runs, project_fail_recent the same ratio over the first five      *)
(* completed runs only; both are 0 without a completed run and both are 1      *)
(* when every completed run failed.                                            *)
C8_FailRatios ==
    pc = "returned" =>
        LET runs == SuppliedCompleted
            f == result.features
        IN /\ runs = <<>> =>
                  f.project_fail_history = RatZero /\ f.project_fail_recent = RatZero
           /\ runs # <<>> =>
                  /\ f.project_fail_history = Rat(Failures(runs), Len(runs))
                  /\ f.project_fail_recent = Rat(Failures(FirstFive(runs)), Len(FirstFive(runs)))
           /\ (runs # <<>> /\ Failures(runs) = Len(runs)) =>
                  f.project_fail_history = RatOne /\ f.project_fail_recent = RatOne

C8_Witness ==
    /\ pc = "returned"
    /\ Len(SuppliedCompleted) > 5
    /\ result.features.project_fail_history # result.features.project_fail_recent

---------------------------------------------------------------------------
(* historical_collector.py (batch mode) *)

\* The commits of the branch are numbered in the order they were made: 1 is the
\* oldest (the root commit), input.remote the newest.  The hosting API lists
\* them newest first, PerPage to a page.
CommitJson(sha) == [sha |-> sha, date |-> sha * SecondsPerDay]
Min(a, b) == IF a < b THEN a ELSE b
PageOfCommits(remote, p) ==
    LET first == remote - (p - 1) * PerPage
        n == IF first < 0 THEN 0 ELSE Min(first, PerPage)
    IN [kind |-> "list", items |-> [i \in 1..n |-> CommitJson(first - i + 1)]]

\* GITHUB_TOKEN: the name is not defined in the script as published, a
\* placeholder in the script as distributed, or a token once the user has set it
TokenStates == {"undefined", "placeholder", "set"}
BatchEnvs == [script : {"historical_collector"}, token : TokenStates]

\* historical_collector.make_api_request(endpoint, params)
make_api_request(e, answer) ==
    IF e.token # "set" THEN [raised |-> TRUE, json |-> None]
    ELSE IF answer.ok THEN [raised |-> FALSE, json |-> answer.json]
    ELSE [raised |-> FALSE, json |-> None]

\* The files of the working tree at a commit: the commit numbered k has k lines
\* of code in src/A.java
CodeLine == <<" ", "x", ";", NL>>
File(dir, name, readable, lines) ==
    [dir |-> dir, name |-> name, readable |-> readable, lines |-> lines]
WorkingTree(k) ==
    << File(<<"r", "/", ".", "g", "i", "t">>, <<"c", ".", "x", "m", "l">>, TRUE,
            <<CodeLine, CodeLine>>),
       File(<<"r">>, <<"R", ".", "m", "d">>, TRUE, <<CodeLine>>),
       File(<<"r", "/", "s", "r", "c">>, <<"B", ".", "x", "m", "l">>, FALSE, <<CodeLine>>),
       File(<<"r", "/", "s", "r", "c">>, <<"A", ".", "j", "a", "v", "a">>, TRUE,
            << <<"/", "/", " ", "c", NL>>, <<" ", " ", NL>>, <<" ", "*", " ", "d", NL>>,
               <<"/", "*", NL>>, <<"#", NL>>, <<NL>> >> \o [i \in 1..k |-> CodeLine]) >>

source_extensions ==
    { <<".", "j", "a", "v", "a">>, <<".", "x", "m", "l">>,
      <<".", "p", "r", "o", "p", "e", "r", "t", "i", "e", "s">> }
CommentMarks == { <<"/", "/">>, <<"*">>, <<"/", "*">>, <<"#">> }

\* stripped_line and not stripped_line.startswith(('//', '*', '/*', '#'))
IsCodeLine(line) ==
    LET stripped_line == Strip(line)
    IN stripped_line # <<>> /\ ~\E m \in CommentMarks : StartsWith(stripped_line, m)

CountCode(lines) == Cardinality({i \in 1..Len(lines) : IsCodeLine(lines[i])})

RECURSIVE WalkCount(_)
WalkCount(files) ==
    IF files = <<>> THEN 0
    ELSE LET f == Head(files)
         IN (IF Contains(f.dir, <<".", "g", "i", "t">>) THEN 0
             ELSE IF ~\E ext \in source_extensions : EndsWith(f.name, ext) THEN 0
             ELSE IF ~f.readable THEN 0
             ELSE CountCode(f.lines))
            + WalkCount(Tail(files))

\* historical_collector.get_sloc_simple(repo_path)
get_sloc_simple(files) == [sloc |-> WalkCount(files)]

\* all_commits.reverse()
ReversedMutant(commits) == commits
Reversed(commits) == [i \in 1..Len(commits) |-> commits[Len(commits) - i + 1]]

\* The commits git may hold for the commit numbered sha: only the first has no parent
BatchCommits(sha) ==
    {c \in CommitInputs :
        /\ Len(c.lines) <= 1
        /\ (c.parents = 0) = (sha = 1)}

InitBatch ==
    /\ pc = "fetch"
    /\ env \in BatchEnvs
    /\ input \in [remote : 0..MaxCommits]
    /\ result = NoResult
    /\ IdleIncremental
    /\ page = 1 /\ all_commits = <<>> /\ idx = 0 /\ features = EmptyDict
    /\ all_features_list = <<>>
    /\ tree = input.remote

\* One turn of `while True:` in main, then all_commits.reverse() and the
\* `if not all_commits: return` once the loop is left
FetchPage(ok) ==
    /\ pc = "fetch"
    /\ LET answer == IF ok THEN ApiAnswer(PageOfCommits(input.remote, page)) ELSE ApiFailure
           r == make_api_request(env, answer)
           commits_page == r.json
           extended == IF Truthy(commits_page) THEN all_commits \o commits_page.items
                       ELSE all_commits
           last == ~Truthy(commits_page) \/ Len(commits_page.items) < PerPage
       IN IF r.raised
          THEN /\ pc' = "fatal"
               /\ UNCHANGED <<all_commits, page, idx, fails>>
          ELSE /\ fails' = fails \cup (IF ok THEN {} ELSE {<<0, "commits_api">>})
               /\ IF last
                  THEN /\ all_commits' = Reversed(extended)
                       /\ pc' = IF extended = <<>> THEN "done" ELSE "checkout"
                       /\ idx' = 1
                       /\ page' = page
                  ELSE /\ all_commits' = extended
                       /\ page' = page + 1
                       /\ pc' = "fetch"
                       /\ idx' = idx
    /\ UNCHANGED <<env, input, result, all_features, out, clock, run,
                   features, all_features_list, tree>>

\* run_command(f"git checkout -q -f {commit_sha}", repo_name): its result is not read
CheckoutStep(ok) ==
    /\ pc = "checkout"
    /\ tree' = IF ok THEN all_commits[idx].sha ELSE tree
    /\ fails' = fails \cup (IF ok THEN {} ELSE {<<all_commits[idx].sha, "checkout">>})
    /\ pc' = "analyze"
    /\ UNCHANGED <<env, input, result, all_features, out, clock, run,
                   page, all_commits, idx, features, all_features_list>>

\* features = {...}; features.update(get_code_churn(...)); features.update(get_sloc_simple(...))
AnalyzeStep ==
    /\ pc = "analyze"
    /\ \E c \in BatchCommits(all_commits[idx].sha) :
        /\ features' =
               Update(Update([commit_sha |-> all_commits[idx].sha,
                              commit_date |-> all_commits[idx].date],
                             get_code_churn(c).features),
                      get_sloc_simple(WorkingTree(tree)))
        /\ fails' = fails \cup
               (IF c.parents > 0 /\ c.revlist_ok /\ ~c.diff_ok
                THEN {<<all_commits[idx].sha, "diff">>} ELSE {})
    /\ pc' = "emit"
    /\ UNCHANGED <<env, input, result, all_features, out, clock, run,
                   page, all_commits, idx, all_features_list, tree>>

\* all_features_list.append(features), and the next turn of the for loop
EmitStep ==
    /\ pc = "emit"
    /\ all_features_list' = Append(all_features_list, features)
    /\ features' = EmptyDict
    /\ idx' = idx + 1
    /\ pc' = IF idx = Len(all_commits) THEN "save" ELSE "checkout"
    /\ UNCHANGED <<env, input, result, all_features, out, fails, clock, run,
                   page, all_commits, tree>>

\* df = pd.DataFrame(all_features_list, columns=FEATURE_COLS).fillna(0); df.to_csv(...)
SaveStep ==
    /\ pc = "save"
    /\ out' = [i \in 1..Len(all_features_list) |-> FrameRow(all_features_list[i], FEATURE_COLS)]
    /\ pc' = "done"
    /\ UNCHANGED <<env, input, result, all_features, fails, clock, run,
                   page, all_commits, idx, features, all_features_list, tree>>

NextBatch ==
    \/ \E ok \in BOOLEAN : FetchPage(ok)
    \/ \E ok \in BOOLEAN : CheckoutStep(ok)
    \/ AnalyzeStep
    \/ EmitStep
    \/ SaveStep

SpecBatch == InitBatch /\ [][NextBatch]_vars

\* A request to the hosting API failed during the walk
ApiFailed == <<0, "commits_api">> \in fails
FailedFor(sha) == <<sha, "checkout">> \in fails \/ <<sha, "diff">> \in fails

(* C1: in batch mode, when the checkout or the diff of a commit fails, the row *)
(* emitted for that commit has src_churn = 0, test_churn = 0,                  *)
(* files_modified = 0 and sloc = 0 (never the SLOC of the tree a previously    *)
(* checked-out commit left), and every later commit still gets its own row.    *)
C1_FailedCommitRowIsZero ==
    /\ \A i \in 1..Len(out) :
          FailedFor(RowValue(out[i], "commit_sha")) =>
              /\ RowValue(out[i], "src_churn") = 0
              /\ RowValue(out[i], "test_churn") = 0
              /\ RowValue(out[i], "files_modified") = 0
              /\ RowValue(out[i], "sloc") = 0
    /\ pc = "done" => Len(out) = Len(all_commits)

Walking == pc \in {"checkout", "analyze", "emit", "save", "done"}

C10_Order ==
    /\ Walking =>
          /\ \A i \in 1..Len(all_commits) :
                all_commits[i].sha = input.remote - Len(all_commits) + i
          /\ ~ApiFailed => Len(all_commits) = input.remote
          /\ \A i \in 1..Len(all_features_list) :
                all_features_list[i].commit_sha = all_commits[i].sha
    /\ pc \in {"checkout", "analyze", "emit"} =>
          idx \in 1..Len(all_commits) /\ Len(all_features_list) = idx - 1
    /\ pc = "save" => Len(all_features_list) = Len(all_commits)
    /\ pc = "done" =>
          /\ Len(out) = Len(all_commits)
          /\ \A i \in 1..Len(out) : RowValue(out[i], "commit_sha") = all_commits[i].sha

C10_Step ==
    /\ (pc = "checkout" /\ pc' # pc) =>
          pc' = "analyze" /\ idx' = idx /\ all_features_list' = all_features_list
    /\ (pc = "analyze" /\ pc' # pc) =>
          /\ pc' = "emit" /\ idx' = idx /\ all_features_list' = all_features_list
          /\ features'.commit_sha = all_commits[idx].sha
    /\ (pc = "emit" /\ pc' # pc) =>
          /\ pc' = IF idx = Len(all_commits) THEN "save" ELSE "checkout"
          /\ idx' = idx + 1
          /\ all_features_list' = Append(all_features_list, features)
    /\ (pc' = "checkout" /\ pc' # pc) => pc \in {"fetch", "emit"}
    /\ Walking => all_commits' = all_commits

(* C10: in batch mode, for any number of commit pages returned newest-first,   *)
(* the walk handles the commits strictly oldest-first across all pages, takes  *)
(* each commit through checkout, then analysis, then row emission before the   *)
(* next commit's checkout starts, and the output holds exactly one row per     *)
(* fetched commit in that oldest-first order.                                  *)
C10_WalkOldestFirst == []C10_Order /\ [][C10_Step]_vars

C10_Witness ==
    /\ pc = "done" /\ ~ApiFailed
    /\ Len(out) > PerPage
    /\ RowValue(out[1], "commit_sha") = 1

---------------------------------------------------------------------------
(* SpecTwice: predict.py invoked twice on the same commit and the same          *)
(* CI-history snapshot                                                          *)

TwiceSnapshots ==
    [commit : {c \in HeadCommits :
                  /\ c.parents = 1 /\ Len(c.lines) = 1
                  /\ (c.lines[1].numeric => c.lines[1].ins = 3)},
     cloc : {CalledProcessError,
             Completed(JsonText(<<Entry(HeaderKey, 0), Entry(JavaKey, 100),
                                  Entry(JUnitKey, 25), Entry(SumKey, 125)>>))},
     commit_answer : {ApiFailure,
                      ApiAnswer([kind |-> "dict", comment_count |-> 2, author |-> TRUE])},
     repo : RepoAnswers,
     runs : RunsAnswers(MaxRunsMain),
     commits : {a \in CommitsAnswers : a.ok => Len(a.json.items) = 2}]

InitTwice ==
    /\ pc = "churn"
    /\ env \in {e \in PredictEnvs : e.repo}
    /\ input \in TwiceSnapshots
    /\ result = NoResult
    /\ all_features = EmptyDict /\ out = <<>> /\ fails = {} /\ clock = <<>> /\ run = 1
    /\ IdleBatch

\* The CI job runs the script again: a new process, the files and the clock go on
StartAgain ==
    /\ pc \in {"done", "crashed"}
    /\ run = 1
    /\ run' = 2
    /\ pc' = "churn"
    /\ all_features' = EmptyDict
    /\ fails' = {}
    /\ UNCHANGED <<env, input, result, out, clock, batchVars>>

NextTwice ==
    \/ ChurnStep(input.commit)
    \/ SlocStep(input.cloc)
    \/ MetaStep(input.commit_answer)
    \/ \E now \in NowTimes : AgeStep(input.repo, now)
    \/ \E now \in NowTimes : RunsStep(input.runs, now)
    \/ IntervalStep(input.commits)
    \/ WriteStep
    \/ StartAgain

SpecTwice == InitTwice /\ [][NextTwice]_vars

\* The clock readings of one invocation
ReadingsOf(r) ==
    LET mine == SelectSeq(clock, LAMBDA x : x.run = r)
    IN [i \in 1..Len(mine) |-> mine[i].at]
ClockFields == {"project_age", "elapsed_days_last_build"}

---------------------------------------------------------------------------
(* Claims about one invocation of predict.py (Spec) *)

(* C2: every row emitted by either mode has exactly the 20 fields of the       *)
(* canonical output schema, in canonical order starting with commit_sha and    *)
(* commit_date; a canonical field that no partial map supplies holds 0.        *)
C2_CanonicalSchema ==
    \A i \in 1..Len(out) :
        /\ RowNames(out[i]) = FEATURE_COLS
        /\ RowValue(out[i], "team_size") = 0

(* C5: in incremental mode, if any analyzer fails (the diff command, the       *)
(* line-counting command or an API request fails or returns unparsable         *)
(* output), the invocation ends in a terminal error and no row is written; a   *)
(* row is written only when every analyzer succeeded.                          *)
C5_NoRowAfterFailure ==
    out # <<>> => fails = {}

(* C6: when a required credential or repository identifier is absent, the run  *)
(* stops with a fatal error at the first API request and emits no row; it      *)
(* never writes a row built from default values.                               *)
C6_NoRowWithoutCredentials ==
    (~env.token \/ ~env.repo) => out = <<>>

===========================================================================
